---- MODULE Spec2Model ----
(***************************************************************************)
(* Panel layout allocator of egui (src/egui/src/containers/panel.rs):      *)
(* SidePanel, TopPanel and CentralPanel share, through the context, the    *)
(* available rectangle of the frame, the per-identity PanelState store and *)
(* the interaction drag_id slot.  Coordinates are f32 in the source; the   *)
(* model uses integers (every value used is exactly representable).        *)
(***************************************************************************)
EXTENDS Integers, Sequences, FiniteSets, TLC

\* ------------------------------------------------------------------ bounds
\* Spec: frames run per behaviour and panels shown per frame.
MaxFrames == 2
MaxShows == 2
\* SpecDrag: frames run per behaviour.
MaxDragFrames == 4
\* SpecFirstFrame: panels shown in the first frame.
MaxFirstFrameShows == 3
\* SpecDrag: side panels shown per frame.
MaxDragShows == 1
\* Show calls entered and not returned: 2 lets a content show one panel.
MaxDepth == 2
\* SpecCalls: the largest finite value handed to clamp_to_range.
MaxClampValue == 5

\* ------------------------------------------------------- program constants
\* f32::INFINITY, the upper end of the default width range.
INFINITY == 1000000
DefaultWidth == 200
DefaultMinWidth == 96
\* Style values supplied by the styling collaborator.
resize_grab_radius_side == 5
interact_size_y == 18

\* Option<T>: None is the empty tuple, Some(v) the one-element tuple.
None == <<>>
Some(v) == <<v>>

Min(a, b) == IF a <= b THEN a ELSE b
Max(a, b) == IF a >= b THEN a ELSE b
Abs(a) == IF a < 0 THEN -a ELSE a

\* ------------------------------------------------------ geometry primitives
Pos2(x, y) == [x |-> x, y |-> y]
Rect(minx, miny, maxx, maxy) == [min |-> Pos2(minx, miny), max |-> Pos2(maxx, maxy)]
width(r) == r.max.x - r.min.x
height(r) == r.max.y - r.min.y
left(r) == r.min.x
right(r) == r.max.x
top(r) == r.min.y
bottom(r) == r.max.y
y_range_contains(r, y) == r.min.y <= y /\ y <= r.max.y

screen_rect == Rect(0, 0, 800, 600)

\* Mutant of clamp_to_range: only the lower end is enforced.
clamp_to_range_from_below(x, range) ==
    LET lo == Min(range[1], range[2])
    IN  IF x < lo THEN lo ELSE x

\* Mutant of clamp_to_range: the ends are taken as given, start as the lower.
clamp_to_range_as_given(x, range) ==
    IF x < range[1] THEN range[1] ELSE IF x > range[2] THEN range[2] ELSE x

\* clamp_to_range: f32::clamp over the normalized (min, max) of the range ends.
clamp_to_range(x, range) ==
    LET lo == Min(range[1], range[2])
        hi == Max(range[1], range[2])
    IN  IF x < lo THEN lo ELSE IF x > hi THEN hi ELSE x

\* --------------------------------------------------------------- identities
Ids == {"A", "B"}

\* id.with("__resize"): the identity of a panel's resize interaction.
resize_id(id) == <<id, "__resize">>

\* The identity of a widget of some panel's content that senses drags.
widget_id == <<"slider", "">>

\* ------------------------------------------------------------------- inputs
\* Pointer positions offered by the input collaborator in a frame.
PointerPositions ==
    { Pos2(10, 300), Pos2(200, 300), Pos2(250, 300), Pos2(200, 700) }

PointerInputs == { Some(p) : p \in PointerPositions } \cup {None}

Inputs ==
    [latest_pos : PointerInputs, any_pressed : BOOLEAN, any_down : BOOLEAN]

\* InputState::default(): no pointer, nothing pressed, nothing down.
NoInput == [latest_pos |-> None, any_pressed |-> FALSE, any_down |-> FALSE]

\* The inputs of the frames in which several panels are laid out: no pointer,
\* a press at x = 200 or x = 250, a held button at x = 250, a released
\* pointer at x = 10.
LayoutInputs ==
    { NoInput,
      [latest_pos |-> Some(Pos2(200, 300)), any_pressed |-> TRUE, any_down |-> TRUE],
      [latest_pos |-> Some(Pos2(250, 300)), any_pressed |-> TRUE, any_down |-> TRUE],
      [latest_pos |-> Some(Pos2(250, 300)), any_pressed |-> FALSE, any_down |-> TRUE],
      [latest_pos |-> Some(Pos2(10, 300)), any_pressed |-> FALSE, any_down |-> FALSE] }

\* SidePanel { resizable, default_width, width_range } as the builders leave it.
WidthRanges ==
    { <<DefaultMinWidth, INFINITY>>, <<DefaultMinWidth, 220>>, <<220, DefaultMinWidth>> }
SideConfigs ==
    { [resizable |-> TRUE, default_width |-> DefaultWidth, width_range |-> r] : r \in WidthRanges }
    \cup { [resizable |-> FALSE, default_width |-> DefaultWidth,
            width_range |-> <<DefaultMinWidth, INFINITY>>] }

\* SidePanel::left(id_source)
SidePanel_left ==
    [resizable |-> TRUE, default_width |-> DefaultWidth,
     width_range |-> <<DefaultMinWidth, INFINITY>>]

\* TopPanel { max_height }: TopPanel::top is the only constructor.
MaxHeights == {None}

\* What add_contents lays out: content that takes exactly the region it is
\* given (fill), or content of a natural size w x h.
Fill == [fill |-> TRUE, w |-> 0, h |-> 0]
Contents == { Fill, [fill |-> FALSE, w |-> 50, h |-> 30] }

\* -------------------------------------------------------------------- state
VARIABLES
    available_rect,  \* ctx.available_rect(): FrameState.available_rect
    id_data,         \* ctx.memory().id_data: identity -> PanelState or None
    drag_id,         \* ctx.memory().interaction.drag_id
    input,           \* ctx.input().pointer of the current frame
    frame,           \* number of frames begun
    shows,           \* history: the show calls of the current frame that have
                     \* returned, in the order of their return
    last,            \* history: details of the show call that returned last
    steady,          \* history: identities shown in the previous frame with the
                     \* SidePanel::left configuration and without resizing
    sawRelease,      \* history: identities that pressed no edge since the last frame
                     \* in which the pointer was released or had no position
    stack,           \* the show calls entered and not yet returned, innermost last
    kept,            \* history: per identity, the width of its last resizing
                     \* frame, while every frame since had a width range holding
                     \* that width, content that fits and no resize
    call             \* a call of a function of the file on its own: arguments, result

vars == <<available_rect, id_data, drag_id, input, frame, stack, shows, last, steady,
          sawRelease, kept, call>>

NoShow == [kind |-> "none"]
NoCall == [kind |-> "none"]

\* ------------------------------------------------------ SidePanel::show steps
\* Mutant of initial_width: the width is used as it is found.
initial_width_unclamped(state, default_width, width_range) ==
    IF state # None THEN width(state[1].rect) ELSE default_width

\* Mutant of initial_width: the stored width is never looked up.
initial_width_default(state, default_width, width_range) ==
    clamp_to_range(default_width, width_range)

\* Lines 107-111: persisted width if present, else the default; then clamp.
initial_width(state, default_width, width_range) ==
    clamp_to_range(IF state # None THEN width(state[1].rect) ELSE default_width, width_range)

\* Lines 105-113: the available rect with its right edge at left + width.
initial_panel_rect(avail, state, default_width, width_range) ==
    [avail EXCEPT !.max.x = avail.min.x + initial_width(state, default_width, width_range)]

\* Lines 120-122.
resize_hover(panel_rect, pointer) ==
    /\ y_range_contains(panel_rect, pointer.y)
    /\ Abs(right(panel_rect) - pointer.x) <= resize_grab_radius_side

\* Lines 115-122: hover is computed only when resizable and a pointer exists.
side_resize_hover(resizable, inp, panel_rect) ==
    /\ resizable
    /\ inp.latest_pos # None
    /\ resize_hover(panel_rect, inp.latest_pos[1])

\* Mutant of takes_drag: hovering is enough, no press is asked for.
takes_drag_on_hover(resizable, inp, panel_rect) ==
    side_resize_hover(resizable, inp, panel_rect)

\* Mutant of takes_drag: a press is enough, the button need not still be down.
takes_drag_any_press(resizable, inp, panel_rect) ==
    /\ side_resize_hover(resizable, inp, panel_rect)
    /\ inp.any_pressed

\* Lines 124-126: the condition under which drag_id is written.
takes_drag(resizable, inp, panel_rect) ==
    /\ side_resize_hover(resizable, inp, panel_rect)
    /\ inp.any_pressed
    /\ inp.any_down

\* Mutant of drag_id_after: a frame without a pointer position empties the slot.
drag_id_after_needs_pointer(drag, id, resizable, inp, panel_rect) ==
    IF takes_drag(resizable, inp, panel_rect) THEN Some(resize_id(id))
    ELSE IF inp.latest_pos = None THEN None ELSE drag

\* Lines 124-129: the slot after the (conditional) write.
drag_id_after(drag, id, resizable, inp, panel_rect) ==
    IF takes_drag(resizable, inp, panel_rect) THEN Some(resize_id(id)) ELSE drag

\* Mutant of side_is_resizing: the resizable flag is not looked at.
side_is_resizing_any(drag, id, resizable, inp) ==
    /\ inp.latest_pos # None
    /\ drag = Some(resize_id(id))

\* Lines 116-130: is_resizing stays false unless resizable and a pointer exists.
side_is_resizing(drag, id, resizable, inp) ==
    /\ resizable
    /\ inp.latest_pos # None
    /\ drag = Some(resize_id(id))

\* Mutant of resized_rect: the pointer width is not clamped.
resized_rect_unclamped(panel_rect, pointer, width_range) ==
    [panel_rect EXCEPT !.max.x = panel_rect.min.x + (pointer.x - left(panel_rect))]

\* Mutant of resized_rect: the width is pointer.x, the left edge is not subtracted.
resized_rect_from_origin(panel_rect, pointer, width_range) ==
    [panel_rect EXCEPT !.max.x = panel_rect.min.x + clamp_to_range(pointer.x, width_range)]

\* Lines 132-134: width from the pointer, clamped.
resized_rect(panel_rect, pointer, width_range) ==
    [panel_rect EXCEPT
        !.max.x = panel_rect.min.x + clamp_to_range(pointer.x - left(panel_rect), width_range)]

\* Lines 105-141: the rectangle handed to the content Ui.
side_panel_rect(avail, state, cfg, drag, id, inp) ==
    LET rect0 == initial_panel_rect(avail, state, cfg.default_width, cfg.width_range)
        drag1 == drag_id_after(drag, id, cfg.resizable, inp, rect0)
    IN  IF side_is_resizing(drag1, id, cfg.resizable, inp)
        THEN resized_rect(rect0, inp.latest_pos[1], cfg.width_range)
        ELSE rect0

\* Lines 105-141 together: what the show has settled before the content is
\* laid out.
side_show_request(avail, state, cfg, drag, id, inp) ==
    LET rect0 == initial_panel_rect(avail, state, cfg.default_width, cfg.width_range)
        drag1 == drag_id_after(drag, id, cfg.resizable, inp, rect0)
    IN  [hover |-> side_resize_hover(cfg.resizable, inp, rect0),
         drag_id |-> drag1,
         is_resizing |-> side_is_resizing(drag1, id, cfg.resizable, inp),
         panel_rect |-> side_panel_rect(avail, state, cfg, drag, id, inp)]

\* Mutant of id_data_insert: nothing is stored.
id_data_insert_skipped(store, id, rect) == store

\* Mutant of id_data_insert: the store is rebuilt with the one entry.
id_data_insert_alone(store, id, rect) ==
    [i \in DOMAIN store |-> IF i = id THEN Some([rect |-> rect]) ELSE None]

\* Line 170: id_data.insert(id, PanelState { rect }).
id_data_insert(store, id, rect) == [store EXCEPT ![id] = Some([rect |-> rect])]

\* Mutant of side_reported_rect: the rectangle asked for is reported.
side_reported_rect_requested(panel_rect, rect) == panel_rect

\* Lines 154, 168, 170: the rectangle passed to allocate_left_panel and persisted
\* is the response rect of the frame, not the rectangle asked for.
side_reported_rect(panel_rect, rect) == rect

\* ------------------------------------------------------- TopPanel::show steps
\* Line 227.
top_max_height(max_height) == IF max_height # None THEN max_height[1] ELSE interact_size_y

\* Mutant of top_panel_rect: the height is measured from the top of the screen,
\* not from the top edge of the available rect.
top_panel_rect_from_screen_top(avail, max_height) ==
    [avail EXCEPT !.max.y = Min(avail.max.y, top_max_height(max_height))]

\* Lines 229-230.
top_panel_rect(avail, max_height) ==
    [avail EXCEPT !.max.y = Min(avail.max.y, avail.min.y + top_max_height(max_height))]

\* Mutant of top_reported_rect: the rectangle asked for is reported.
top_reported_rect_requested(panel_rect, rect) == panel_rect

\* Lines 244-245: the rectangle passed to allocate_top_panel is the response rect.
top_reported_rect(panel_rect, rect) == rect

\* --------------------------------------------------- CentralPanel::show steps
\* Mutant of central_panel_rect: the whole screen instead of what is left.
central_panel_rect_screen(avail) == screen_rect

\* Line 289.
central_panel_rect(avail) == avail

\* ------------------------------------------------- content rendering (Frame)
\* Frame::show on a Ui over panel_rect: the response rect starts at the region's
\* top-left corner and covers what the content used.
\* Side: set_min_height(max_rect height) makes it at least the full height.
frame_show_side(panel_rect, content) ==
    IF content.fill THEN panel_rect
    ELSE [panel_rect EXCEPT !.max.x = panel_rect.min.x + content.w,
                            !.max.y = panel_rect.min.y + Max(height(panel_rect), content.h)]

\* Top: set_min_width(max_rect width) makes it at least the full width.
frame_show_top(panel_rect, content) ==
    IF content.fill THEN panel_rect
    ELSE [panel_rect EXCEPT !.max.x = panel_rect.min.x + Max(width(panel_rect), content.w),
                            !.max.y = panel_rect.min.y + content.h]

\* Central: expand_to_include_rect(max_rect) makes it at least the whole region.
frame_show_central(panel_rect, content) ==
    IF content.fill THEN panel_rect
    ELSE [panel_rect EXCEPT !.max.x = panel_rect.min.x + Max(width(panel_rect), content.w),
                            !.max.y = panel_rect.min.y + Max(height(panel_rect), content.h)]

\* ------------------------------------------------ frame-wide allocation tracker
allocate_left_panel(avail, panel_rect) == [avail EXCEPT !.min.x = panel_rect.max.x]
allocate_top_panel(avail, panel_rect) == [avail EXCEPT !.min.y = panel_rect.max.y]
\* The central panel does not shrink the available rect.
allocate_central_panel(avail, panel_rect) == avail

\* Mutants of central_allocate: the rectangle is reported as a top panel's, or
\* as a left panel's.
central_allocate_as_top(avail, rect) == allocate_top_panel(avail, rect)
central_allocate_as_left(avail, rect) == allocate_left_panel(avail, rect)

\* Lines 303-305: the response rect goes to allocate_central_panel.
central_allocate(avail, rect) == allocate_central_panel(avail, rect)

\* ------------------------------------------------------------- frame start
\* The drag owner is dropped at the start of a frame once the pointer was
\* released, or had no position, in the frame before.
pointer_released(prev_input) == ~prev_input.any_down \/ prev_input.latest_pos = None

begin_frame_drag_id(drag, prev_input) == IF pointer_released(prev_input) THEN None ELSE drag

\* A button that is down without having been pressed this frame was down before.
input_follows(prev_input, inp) == (inp.any_down /\ ~inp.any_pressed) => prev_input.any_down

\* --------------------------------------------------- the history's own terms
\* The history variables are kept in the words of the specification, not of the
\* code: a frame in which the pointer is released or has no position, and a
\* fresh, held press within the grab tolerance of a resizable panel's right edge.
ReleasedIn(inp) == ~inp.any_down \/ inp.latest_pos = None

OverEdge(inp, r) ==
    /\ inp.latest_pos # None
    /\ r.min.y <= inp.latest_pos[1].y
    /\ inp.latest_pos[1].y <= r.max.y
    /\ r.max.x - inp.latest_pos[1].x <= resize_grab_radius_side
    /\ inp.latest_pos[1].x - r.max.x <= resize_grab_radius_side

PressOnEdge(cfg, inp, r) ==
    cfg.resizable /\ inp.any_pressed /\ inp.any_down /\ OverEdge(inp, r)

\* ------------------------------------------------------------------ actions
Init ==
    /\ available_rect = screen_rect
    /\ id_data = [i \in Ids |-> None]
    /\ drag_id = None
    /\ input = NoInput
    /\ frame = 0
    /\ stack = <<>>
    /\ shows = <<>>
    /\ last = NoShow
    /\ steady = {}
    /\ sawRelease = Ids
    /\ kept = [i \in Ids |-> None]
    /\ call = NoCall

\* What is kept for an identity when one of its shows returns: a show that
\* resized it, with content that fits, starts a record of its width; a show
\* with a width range that holds that width, content that fits and no resize
\* carries the record on; any other show drops it.
KeptAfter(old, fill, is_resizing, w, range) ==
    IF fill /\ is_resizing THEN Some(w)
    ELSE IF /\ fill /\ ~is_resizing /\ old # None
            /\ Min(range[1], range[2]) <= old[1]
            /\ old[1] <= Max(range[1], range[2])
    THEN old
    ELSE None

\* ctx.begin_frame(new_input), between the shows of one frame and the next:
\* the available rect is the whole screen again.
BeginFrame(inp) ==
    /\ stack = <<>>
    /\ input_follows(input, inp)
    /\ frame' = frame + 1
    /\ input' = inp
    /\ available_rect' = screen_rect
    /\ drag_id' = begin_frame_drag_id(drag_id, input)
    /\ sawRelease' = IF ReleasedIn(input) THEN Ids ELSE sawRelease
    /\ shows' = <<>>
    /\ last' = NoShow
    /\ steady' = { i \in Ids : \E k \in 1..Len(shows) :
                        /\ shows[k].id = i
                        /\ shows[k].cfg = Some(SidePanel_left)
                        /\ ~shows[k].is_resizing }
    /\ UNCHANGED <<id_data, stack, kept, call>>

\* Panels are shown between begin_frame and end_frame.
InFrame == frame >= 1

\* The show calls that have been entered and have not returned, outermost
\* first: a show entered from the content of another lies above it.
Pending == stack[Len(stack)]
Popped == SubSeq(stack, 1, Len(stack) - 1)

\* SidePanel { id, resizable, default_width, width_range }.show(ctx, add_contents)
\* up to the call of add_contents (lines 92-149).
SidePanelShowBegin(id, cfg) ==
    /\ InFrame
    /\ LET state == id_data[id]
           rect0 == initial_panel_rect(available_rect, state, cfg.default_width, cfg.width_range)
           hover == side_resize_hover(cfg.resizable, input, rect0)
           wrote == takes_drag(cfg.resizable, input, rect0)
           drag1 == drag_id_after(drag_id, id, cfg.resizable, input, rect0)
           resizing == side_is_resizing(drag1, id, cfg.resizable, input)
           panel_rect == side_panel_rect(available_rect, state, cfg, drag_id, id, input)
           released == IF PressOnEdge(cfg, input, rect0) THEN sawRelease \ {id}
                       ELSE sawRelease
       IN  /\ drag_id' = drag1
           /\ stack' = Append(stack,
                       [kind |-> "side", id |-> id, cfg |-> cfg, depth |-> Len(stack),
                        avail |-> available_rect,
                        state |-> state, steady |-> id \in steady, kept |-> kept[id],
                        since_release |-> id \in released,
                        drag_before |-> drag_id, drag_after |-> drag1,
                        hover |-> hover, wrote |-> wrote, is_resizing |-> resizing,
                        rect0 |-> rect0, panel_rect |-> panel_rect])
           /\ sawRelease' = released
    /\ UNCHANGED <<available_rect, id_data, input, frame, shows, last, steady, kept, call>>

\* SidePanel::show from the return of add_contents on (lines 149-173).
SidePanelShowEnd(content) ==
    /\ stack # <<>>
    /\ drag_id' = drag_id
    /\ Pending.kind = "side"
    /\ LET p == Pending
           rect == frame_show_side(p.panel_rect, content)
           reported == side_reported_rect(p.panel_rect, rect)
       IN  /\ available_rect' = allocate_left_panel(available_rect, reported)
           /\ id_data' = id_data_insert(id_data, p.id, reported)
           /\ shows' = Append(shows, [kind |-> "side", id |-> p.id, rect |-> rect,
                                      avail |-> p.avail, depth |-> p.depth,
                                      is_resizing |-> p.is_resizing, cfg |-> Some(p.cfg),
                                      fill |-> content.fill])
           /\ last' = [content |-> content, rect |-> rect,
                       store |-> id_data, store_after |-> id_data',
                       avail_end |-> available_rect, avail_after |-> available_rect',
                       drag_end |-> drag_id, drag_return |-> drag_id'] @@ p
           /\ kept' = [kept EXCEPT ![p.id] =
                          KeptAfter(kept[p.id], content.fill, p.is_resizing,
                                    width(rect), p.cfg.width_range)]
    /\ stack' = Popped
    /\ UNCHANGED <<input, frame, steady, sawRelease, call>>

\* TopPanel { max_height }.show(ctx, add_contents) up to the call of
\* add_contents (lines 217-238).
TopPanelShowBegin(max_height) ==
    /\ InFrame
    /\ stack' = Append(stack,
                       [kind |-> "top", max_height |-> max_height, depth |-> Len(stack),
                        avail |-> available_rect,
                        drag_before |-> drag_id, drag_after |-> drag_id,
                        panel_rect |-> top_panel_rect(available_rect, max_height)])
    /\ UNCHANGED <<available_rect, id_data, drag_id, input, frame, shows, last, steady,
                   sawRelease, kept, call>>

\* TopPanel::show from the return of add_contents on (lines 238-248).
TopPanelShowEnd(content) ==
    /\ stack # <<>>
    /\ drag_id' = drag_id
    /\ Pending.kind = "top"
    /\ LET p == Pending
           rect == frame_show_top(p.panel_rect, content)
           reported == top_reported_rect(p.panel_rect, rect)
       IN  /\ available_rect' = allocate_top_panel(available_rect, reported)
           /\ shows' = Append(shows, [kind |-> "top", id |-> "top", rect |-> rect,
                                      avail |-> p.avail, depth |-> p.depth,
                                      is_resizing |-> FALSE, cfg |-> None,
                                      fill |-> content.fill])
           /\ last' = [content |-> content, rect |-> rect,
                       store |-> id_data, store_after |-> id_data,
                       avail_end |-> available_rect, avail_after |-> available_rect',
                       drag_end |-> drag_id, drag_return |-> drag_id'] @@ p
    /\ stack' = Popped
    /\ UNCHANGED <<id_data, drag_id, input, frame, steady, sawRelease, kept, call>>

\* CentralPanel::default().show(ctx, add_contents) up to the call of
\* add_contents (lines 282-298).
CentralPanelShowBegin ==
    /\ InFrame
    /\ stack' = Append(stack,
                       [kind |-> "central", depth |-> Len(stack),
                        avail |-> available_rect,
                        drag_before |-> drag_id, drag_after |-> drag_id,
                        panel_rect |-> central_panel_rect(available_rect)])
    /\ UNCHANGED <<available_rect, id_data, drag_id, input, frame, shows, last, steady,
                   sawRelease, kept, call>>

\* CentralPanel::show from the return of add_contents on (lines 298-308).
CentralPanelShowEnd(content) ==
    /\ stack # <<>>
    /\ drag_id' = drag_id
    /\ Pending.kind = "central"
    /\ LET p == Pending
           rect == frame_show_central(p.panel_rect, content)
       IN  /\ available_rect' = central_allocate(available_rect, rect)
           /\ shows' = Append(shows, [kind |-> "central", id |-> "central_panel",
                                      rect |-> rect, avail |-> p.avail, depth |-> p.depth,
                                      is_resizing |-> FALSE, cfg |-> None,
                                      fill |-> content.fill])
           /\ last' = [content |-> content, rect |-> rect,
                       store |-> id_data, store_after |-> id_data,
                       avail_end |-> available_rect, avail_after |-> available_rect',
                       drag_end |-> drag_id, drag_return |-> drag_id'] @@ p
    /\ stack' = Popped
    /\ UNCHANGED <<id_data, drag_id, input, frame, steady, sawRelease, kept, call>>

\* add_contents(ui) of a show that has not returned: the content holds the
\* same ctx, and a widget of it writes its own identity into the drag_id slot.
ContentTakesDrag ==
    /\ stack # <<>>
    /\ drag_id # Some(widget_id)
    /\ drag_id' = Some(widget_id)
    /\ UNCHANGED <<available_rect, id_data, input, frame, stack, shows, last, steady,
                   sawRelease, kept, call>>

SideBegins == \E id \in Ids, cfg \in SideConfigs : SidePanelShowBegin(id, cfg)
SideEnds == \E content \in Contents : SidePanelShowEnd(content)
TopBegins == \E max_height \in MaxHeights : TopPanelShowBegin(max_height)
TopEnds == \E content \in Contents : TopPanelShowEnd(content)
CentralEnds == \E content \in Contents : CentralPanelShowEnd(content)

\* The show calls entered in the frame so far.
Entered == Len(shows) + Len(stack)

\* Any panels in any order, one after another or from inside the content of
\* another, over a few frames.
Next ==
    \/ frame < MaxFrames /\ \E inp \in LayoutInputs : BeginFrame(inp)
    \/ Entered < MaxShows /\ Len(stack) < MaxDepth /\ SideBegins
    \/ Entered < MaxShows /\ Len(stack) < MaxDepth /\ TopBegins
    \/ Entered < MaxShows /\ Len(stack) < MaxDepth /\ CentralPanelShowBegin
    \/ SideEnds
    \/ TopEnds
    \/ CentralEnds
    \/ ContentTakesDrag

Spec == Init /\ [][Next]_vars

\* Side panels only, with every pointer input, over more frames: press, drag,
\* release and the frames after.
NextDrag ==
    \/ frame < MaxDragFrames /\ \E inp \in Inputs : BeginFrame(inp)
    \/ Entered < MaxDragShows /\ Len(stack) < MaxDepth /\ SideBegins
    \/ SideEnds
    \/ ContentTakesDrag

SpecDrag == Init /\ [][NextDrag]_vars

\* The first frame after construction, with more panels in it.
NextFirstFrame ==
    \/ frame < 1 /\ \E inp \in LayoutInputs : BeginFrame(inp)
    \/ Entered < MaxFirstFrameShows /\ Len(stack) < MaxDepth /\ SideBegins
    \/ Entered < MaxFirstFrameShows /\ Len(stack) < MaxDepth /\ TopBegins
    \/ Entered < MaxFirstFrameShows /\ Len(stack) < MaxDepth /\ CentralPanelShowBegin
    \/ SideEnds
    \/ TopEnds
    \/ CentralEnds
    \/ ContentTakesDrag

SpecFirstFrame == Init /\ [][NextFirstFrame]_vars

\* ------------------------------------------------- functions on their own
\* Arguments for clamp_to_range: finite values, a negative one and infinity
\* among them, and ranges with their ends in either order.
ClampValues == (-1..MaxClampValue) \cup {INFINITY}
ClampEnds == (0..MaxClampValue) \cup {INFINITY}
ClampCalls ==
    { [kind |-> "clamp", x |-> x, range |-> <<a, b>>, out |-> None] :
        x \in ClampValues, a \in ClampEnds, b \in ClampEnds }

\* Arguments for the layout part of SidePanel::show: an available rect, a
\* stored state, a configuration, a drag owner and a pointer input.
StoredWidths == {50, 200, 250, 400}
CallStates == {None} \cup { Some([rect |-> Rect(0, 0, w, 600)]) : w \in StoredWidths }
CallAvails == { screen_rect, [screen_rect EXCEPT !.min.x = 50] }
CallDrags == {None} \cup { Some(resize_id(i)) : i \in Ids }
SideCalls ==
    { [kind |-> "side", avail |-> a, state |-> st, cfg |-> cfg, drag |-> d,
       id |-> "A", inp |-> inp, out |-> None] :
        a \in CallAvails, st \in CallStates, cfg \in SideConfigs,
        d \in CallDrags, inp \in Inputs }

InitCalls ==
    /\ available_rect = screen_rect
    /\ id_data = [i \in Ids |-> None]
    /\ drag_id = None
    /\ input = NoInput
    /\ frame = 0
    /\ stack = <<>>
    /\ shows = <<>>
    /\ last = NoShow
    /\ steady = {}
    /\ sawRelease = Ids
    /\ kept = [i \in Ids |-> None]
    /\ call \in ClampCalls \cup SideCalls

\* clamp_to_range(x, range)
ClampCall ==
    /\ call.kind = "clamp" /\ call.out = None
    /\ call' = [call EXCEPT !.out = Some(clamp_to_range(call.x, call.range))]
    /\ UNCHANGED <<available_rect, id_data, drag_id, input, frame, stack, shows, last,
                   steady, sawRelease, kept>>

\* SidePanel::show up to the layout of the content.
SideCall ==
    /\ call.kind = "side" /\ call.out = None
    /\ call' = [call EXCEPT !.out =
                    Some(side_show_request(call.avail, call.state, call.cfg,
                                           call.drag, call.id, call.inp))]
    /\ UNCHANGED <<available_rect, id_data, drag_id, input, frame, stack, shows, last,
                   steady, sawRelease, kept>>

NextCalls == ClampCall \/ SideCall

SpecCalls == InitCalls /\ [][NextCalls]_vars

\* =================================================================== claims
\* Terms shared by the statements below.
Contains(outer, inner) ==
    /\ outer.min.x <= inner.min.x /\ inner.max.x <= outer.max.x
    /\ outer.min.y <= inner.min.y /\ inner.max.y <= outer.max.y

\* Some point lies strictly inside both rectangles.
Overlap(a, b) ==
    /\ Max(a.min.x, b.min.x) < Min(a.max.x, b.max.x)
    /\ Max(a.min.y, b.min.y) < Min(a.max.y, b.max.y)

\* The show calls of the frame that have been entered: those that have not
\* returned and the one that returned last.
Begun ==
    { stack[k] : k \in 1..Len(stack) } \cup (IF last.kind = "none" THEN {} ELSE {last})
BegunSides == { r \in Begun : r.kind = "side" }

\* No show of the frame was entered from the content of another.
OneAfterAnother ==
    /\ Len(stack) <= 1
    /\ \A k \in 1..Len(shows) : shows[k].depth = 0

\* The identities whose show took its width from the pointer in this frame.
Resizers == { shows[k].id : k \in { j \in 1..Len(shows) : shows[j].is_resizing } }

\* The width range with its ends in order.
RangeLo(range) == IF range[1] <= range[2] THEN range[1] ELSE range[2]
RangeHi(range) == IF range[1] <= range[2] THEN range[2] ELSE range[1]
InRange(w, range) == RangeLo(range) <= w /\ w <= RangeHi(range)
Nearest(w, range) ==
    IF w < RangeLo(range) THEN RangeLo(range)
    ELSE IF w > RangeHi(range) THEN RangeHi(range) ELSE w

\* C1: while another panel's resize identity holds the drag_id slot and a
\* button is down, a side panel's show leaves the slot as it found it, even
\* with a press over its own right edge.
C1_DragOwnerExclusive ==
    \A r \in BegunSides :
        \A a \in Ids \ {r.id} :
            (r.drag_before = Some(resize_id(a)) /\ input.any_down)
                => r.drag_after = r.drag_before

\* C2: in every frame at most one side panel has a show with is_resizing true.
C2_SingleResizer == Cardinality(Resizers) <= 1

\* C3: when a show returns, the available rect lies within the available
\* rect the show was entered with, whatever the panel, its configuration, the
\* pointer input and the content; with the shows of a frame made one after
\* another each show is therefore given a rect within the one given to the
\* show before it; and a frame starts with the whole screen rect.
C3_AvailableShrinks ==
    /\ last.kind # "none" => Contains(last.avail, last.avail_after)
    /\ (OneAfterAnother /\ last.kind # "none") =>
          /\ last.avail_end = last.avail
          /\ \A k \in 1..(Len(shows) - 1) : Contains(shows[k].avail, shows[k + 1].avail)
    /\ (frame >= 1 /\ shows = <<>> /\ stack = <<>>) => available_rect = screen_rect

\* In the second frame a top panel and then a side panel that is being
\* resized have been shown: the available rect has shrunk from the top and
\* from the left.
C3_Witness ==
    /\ frame = 2 /\ stack = <<>> /\ OneAfterAnother
    /\ Len(shows) = 2
    /\ shows[1].kind = "top"
    /\ last.kind = "side"
    /\ last.is_resizing
    /\ Contains(shows[1].avail, last.avail) /\ last.avail # shows[1].avail
    /\ available_rect = last.avail_after
    /\ available_rect # last.avail
    /\ available_rect.min.x > 0 /\ available_rect.min.y > 0

\* C4: with side and top panels shown one show call at a time, in any order,
\* and a central panel, if any, last, no two rectangles of the frame overlap.
C4_NoOverlap ==
    (OneAfterAnother /\ \A k \in 1..(Len(shows) - 1) : shows[k].kind # "central")
        => \A i, j \in 1..Len(shows) : i < j => ~Overlap(shows[i].rect, shows[j].rect)

\* A side panel, a top panel and a central panel, the first two with content
\* of its own size.
C4_Witness ==
    /\ OneAfterAnother /\ stack = <<>>
    /\ Len(shows) = 3
    /\ shows[1].kind = "side" /\ ~shows[1].fill
    /\ shows[2].kind = "top" /\ ~shows[2].fill
    /\ shows[3].kind = "central"
    /\ \A k \in 1..3 : width(shows[k].rect) > 0 /\ height(shows[k].rect) > 0

\* C5: when a side panel's show returns, the left edge of the available rect
\* is at the right edge of the rectangle the panel took and the other edges
\* are where the panel's report found them; when a top panel's show returns,
\* the top edge is at the bottom edge of the rectangle the panel took and the
\* other edges are where its report found them.  On the 800x600 screen a top
\* panel that takes y in [0, 30] leaves the top edge at 30.
C5_EdgeHandOff ==
    /\ last.kind = "side" =>
          /\ last.avail_after.min.x = last.rect.max.x
          /\ last.avail_after.min.y = last.avail_end.min.y
          /\ last.avail_after.max = last.avail_end.max
    /\ last.kind = "top" =>
          /\ last.avail_after.min.y = last.rect.max.y
          /\ last.avail_after.min.x = last.avail_end.min.x
          /\ last.avail_after.max = last.avail_end.max
    /\ (last.kind = "top" /\ last.avail_end = screen_rect
            /\ last.rect = Rect(0, 0, 800, 30)) =>
          last.avail_after = Rect(0, 30, 800, 600)

\* A top panel took y in [0, 30]; the side panel after it took less than it
\* asked for.
C5_Witness ==
    /\ stack = <<>> /\ OneAfterAnother
    /\ Len(shows) = 2
    /\ shows[1].kind = "top" /\ shows[1].rect = Rect(0, 0, 800, 30)
    /\ last.kind = "side"
    /\ ~last.content.fill
    /\ last.rect.max.x # last.panel_rect.max.x
    /\ last.avail_after = Rect(last.rect.max.x, 30, 800, 600)
    /\ available_rect = last.avail_after

\* C6: a central panel asks for the whole available rect it finds.  A side
\* panel with the SidePanel::left configuration, no stored state, no drag and
\* content that fits, followed by a central panel, gives x:[0,200] y:[0,600]
\* and x:[200,800] y:[0,600]; a top panel followed by a central panel gives a
\* central rectangle that starts at the bottom edge of the top panel.
C6_CentralFillsRemainder ==
    /\ \A r \in Begun : r.kind = "central" => r.panel_rect = r.avail
    /\ (OneAfterAnother /\ Len(shows) = 2 /\ last.kind = "central"
            /\ shows[1].kind = "side" /\ frame = 1 /\ shows[1].cfg = Some(SidePanel_left)
            /\ ~shows[1].is_resizing /\ shows[1].fill) =>
          /\ shows[1].rect = Rect(0, 0, 200, 600)
          /\ last.panel_rect = Rect(200, 0, 800, 600)
    /\ (OneAfterAnother /\ Len(shows) = 2 /\ last.kind = "central"
            /\ shows[1].kind = "top") =>
          last.panel_rect = Rect(0, shows[1].rect.max.y, 800, 600)

C6_Witness ==
    /\ OneAfterAnother /\ stack = <<>>
    /\ Len(shows) = 2 /\ last.kind = "central" /\ shows[1].kind = "side"
    /\ frame = 1 /\ shows[1].cfg = Some(SidePanel_left)
    /\ ~shows[1].is_resizing /\ shows[1].fill
    /\ last.rect = Rect(200, 0, 800, 600)

\* C7: while a resizable side panel's resize identity is the drag owner and
\* the pointer has a position, the panel asks for the width pointer.x - left,
\* brought into its width range, and its right edge is left + that width.
\* With left 0 and the range [96, inf): pointer x 250 gives 250, x 10 gives 96.
C7_DragWidth ==
    (last.kind = "side" /\ last.cfg.resizable /\ input.latest_pos # None
        /\ last.drag_after = Some(resize_id(last.id))) =>
        LET px == input.latest_pos[1].x
            l == last.avail.min.x
        IN  /\ last.panel_rect.min.x = l
            /\ last.panel_rect.max.x = l + Nearest(px - l, last.cfg.width_range)
            /\ (l = 0 /\ last.cfg.width_range = <<96, INFINITY>> /\ px = 250)
                  => width(last.panel_rect) = 250
            /\ (l = 0 /\ last.cfg.width_range = <<96, INFINITY>> /\ px = 10)
                  => width(last.panel_rect) = 96

C7_Witness ==
    /\ last.kind = "side" /\ last.cfg = SidePanel_left
    /\ ~last.wrote
    /\ last.drag_after = Some(resize_id(last.id))
    /\ last.avail.min.x = 0
    /\ input.latest_pos = Some(Pos2(10, 300))
    /\ last.panel_rect = Rect(0, 0, 96, 600)

\* C8 as stated: a side panel shown in two consecutive frames with the same
\* configuration and no resize in either has, in the second frame, the width
\* of the rectangle stored at the end of the first.
C8_SameWidthAsStored ==
    (last.kind = "side" /\ last.steady /\ last.cfg = SidePanel_left /\ ~last.is_resizing) =>
        \/ width(last.panel_rect) = width(last.state[1].rect)
        \/ width(last.rect) = width(last.state[1].rect)

\* C8 as amended: a side panel with a stored rectangle and no resize in the
\* frame asks for the stored width brought into its width range; the stored
\* width itself whenever that lies in the range.
C8_StoredWidthClamped ==
    (last.kind = "side" /\ last.state # None /\ ~last.is_resizing) =>
        LET w == width(last.state[1].rect)
        IN  /\ width(last.panel_rect) = Nearest(w, last.cfg.width_range)
            /\ InRange(w, last.cfg.width_range) => width(last.panel_rect) = w

C8_Witness ==
    /\ last.kind = "side" /\ last.steady /\ last.cfg = SidePanel_left /\ ~last.is_resizing
    /\ width(last.state[1].rect) = 50
    /\ width(last.panel_rect) = 96

\* C9: once a frame has passed with the pointer released or without a
\* position, a side panel takes its width from the pointer in no later frame
\* unless it is pressed on its edge again.
C9_DragEndsOnRelease ==
    \A r \in BegunSides : r.is_resizing => ~r.since_release

\* The panel was dragged out to 250 (no other way to a stored width of 250),
\* the pointer was released, and now the pointer is at x = 10.
C9_Witness ==
    /\ frame >= 3
    /\ last.kind = "side" /\ last.cfg = SidePanel_left
    /\ last.since_release
    /\ last.state = Some([rect |-> Rect(0, 0, 250, 600)])
    /\ input.latest_pos = Some(Pos2(10, 300))
    /\ ~last.is_resizing
    /\ last.panel_rect = Rect(0, 0, 250, 600)

\* C10: a side panel's show writes the drag_id slot exactly when the panel is
\* resizable, the pointer has a position, a button was just pressed, a button
\* is down and the pointer is over the panel's right edge; otherwise the show
\* leaves the slot as it was: before its content runs and after.  The slot
\* is empty or holds one identity.
C10_AcquireOnlyOnPress ==
    /\ drag_id \in {None, Some(widget_id)} \cup { Some(resize_id(i)) : i \in Ids }
    /\ \A r \in BegunSides :
          IF PressOnEdge(r.cfg, input, r.rect0)
          THEN r.wrote /\ r.drag_after = Some(resize_id(r.id))
          ELSE ~r.wrote /\ r.drag_after = r.drag_before
    /\ last.kind = "side" => last.drag_return = last.drag_end

C10_Witness ==
    /\ frame = 2 /\ stack = <<>>
    /\ last.kind = "side" /\ last.id = "B"
    /\ last.state # None
    /\ last.drag_before = None
    /\ last.wrote
    /\ drag_id = Some(resize_id("B"))

\* The max height a top panel was built with, in the words of the specification.
MaxHeightOf(max_height) == IF max_height = None THEN interact_size_y ELSE max_height[1]

\* C11 as stated: the rectangle a top panel occupies starts at the top edge of
\* the available rect and is never taller than the panel's max height,
\* whatever the content asks for.
C11_OccupiedHeightBounded ==
    last.kind = "top" =>
        /\ last.rect.min.y = last.avail.min.y
        /\ height(last.rect) <= MaxHeightOf(last.max_height)

\* C11 as amended: the rectangle a top panel asks for starts at the top-left
\* corner of the available rect, spans its width and has the max height (or
\* what is left of the available height, if less); the rectangle it occupies
\* starts at the same corner, and is within the max height when the content
\* takes the region it is given.
C11_RequestedHeightBounded ==
    /\ \A r \in Begun : r.kind = "top" =>
          /\ r.panel_rect.min = r.avail.min
          /\ r.panel_rect.max.x = r.avail.max.x
          /\ height(r.panel_rect) = Min(height(r.avail), MaxHeightOf(r.max_height))
    /\ last.kind = "top" =>
          /\ last.rect.min = last.avail.min
          /\ last.content.fill => height(last.rect) <= MaxHeightOf(last.max_height)

\* A second top panel, below a first one, whose content is taller than the
\* default max height.
C11_Witness ==
    /\ OneAfterAnother /\ stack = <<>>
    /\ Len(shows) = 2 /\ shows[1].kind = "top"
    /\ last.kind = "top" /\ last.max_height = None /\ ~last.content.fill
    /\ last.avail.min.y > 0
    /\ height(last.panel_rect) = interact_size_y
    /\ height(last.rect) = 30

\* The width a side panel starts from: the stored width, or the default width
\* when nothing is stored, brought into the width range.
StartWidth(state, cfg) ==
    Nearest(IF state = None THEN cfg.default_width ELSE width(state[1].rect), cfg.width_range)

\* C12: in a frame without a pointer position a resizable side panel's show
\* computes no hover and no resize: it asks for the stored (or default) width
\* brought into its range, from the left edge of the available rect, even
\* when its own resize identity is in the drag_id slot, and leaves the slot
\* as it found it, before its content runs and after.
C12_NoPointerNoResize ==
    /\ \A r \in BegunSides : (r.cfg.resizable /\ input.latest_pos = None) =>
          /\ ~r.hover /\ ~r.wrote /\ ~r.is_resizing
          /\ r.panel_rect.min = r.avail.min
          /\ width(r.panel_rect) = StartWidth(r.state, r.cfg)
          /\ r.drag_after = r.drag_before
    /\ (last.kind = "side" /\ last.cfg.resizable /\ input.latest_pos = None) =>
          last.drag_return = last.drag_end

\* The panel was dragged out to 250 and still owns the drag (the button is
\* down) in a frame in which the pointer has no position.
C12_Witness ==
    /\ frame >= 3 /\ stack = <<>>
    /\ last.kind = "side" /\ last.cfg = SidePanel_left
    /\ input.latest_pos = None /\ input.any_down
    /\ last.drag_before = Some(resize_id(last.id))
    /\ drag_id = Some(resize_id(last.id))
    /\ last.state = Some([rect |-> Rect(0, 0, 250, 600)])
    /\ last.panel_rect = Rect(0, 0, 250, 600)

\* C13: a side panel with nothing stored starts from its default width brought
\* into its range; when a side panel's show returns, the store holds, under
\* the panel's identity, the rectangle the panel took, and every other
\* identity's entry is as the panel's insert found it; no show removes an
\* entry; a top or central panel's show leaves the store as it was and asks
\* for a rectangle fixed by the available rect (and the max height) alone.
C13_StoreLifecycle ==
    /\ \A r \in BegunSides : r.state = None =>
          /\ width(r.rect0) = Nearest(r.cfg.default_width, r.cfg.width_range)
          /\ ~r.is_resizing => r.panel_rect = r.rect0
    /\ last.kind = "side" =>
          /\ last.store_after[last.id] = Some([rect |-> last.rect])
          /\ \A i \in Ids \ {last.id} : last.store_after[i] = last.store[i]
          /\ last.state # None => last.store[last.id] # None
    /\ last.kind # "none" =>
          \A i \in Ids : last.store[i] # None => last.store_after[i] # None
    /\ last.kind \in {"top", "central"} => last.store_after = last.store
    /\ \A r \in Begun :
          /\ r.kind = "central" => r.panel_rect = r.avail
          /\ r.kind = "top" =>
                r.panel_rect =
                    [r.avail EXCEPT !.max.y =
                        Min(r.avail.max.y, r.avail.min.y + MaxHeightOf(r.max_height))]

\* Both identities were stored in the first frame; in the second, below a top
\* panel, A's content takes less than the rectangle asked for, A's entry is
\* replaced by the rectangle taken and B's entry stays.
C13_Witness ==
    /\ frame = 2 /\ Len(shows) = 2 /\ shows[1].kind = "top" /\ stack = <<>>
    /\ last.kind = "side" /\ last.id = "A" /\ ~last.content.fill
    /\ last.store["A"] # None /\ last.store["B"] # None
    /\ last.rect # last.panel_rect
    /\ id_data["A"] = Some([rect |-> last.rect])
    /\ id_data["A"] # last.store["A"]
    /\ id_data["B"] = last.store["B"]

\* C14: for a range with lo <= hi the result of clamp_to_range lies in
\* [lo, hi] and is x itself whenever x lies in [lo, hi].
C14_ClampInRange ==
    (call.kind = "clamp" /\ call.out # None /\ call.range[1] <= call.range[2]) =>
        /\ call.range[1] <= call.out[1] /\ call.out[1] <= call.range[2]
        /\ (call.range[1] <= call.x /\ call.x <= call.range[2]) => call.out[1] = call.x

\* Values below, inside and above a proper range have all been clamped.
C14_Witness ==
    /\ call.kind = "clamp" /\ call.range = <<2, 4>>
    /\ call.x = 5 /\ call.out = Some(4)

\* The range with its ends exchanged.
Swapped(range) == <<range[2], range[1]>>

\* C15: for a range given as [hi, lo] with hi > lo, clamp_to_range gives what
\* it gives for [lo, hi], which is the value of [lo, hi] nearest to x; and a
\* side panel built with the range [hi, lo] has the hover, the drag owner,
\* the resize flag and the rectangle of one built with [lo, hi].
C15_InvertedRange ==
    /\ (call.kind = "clamp" /\ call.out # None /\ call.range[1] > call.range[2]) =>
          /\ call.out[1] = clamp_to_range(call.x, Swapped(call.range))
          /\ call.out[1] = (IF call.x < call.range[2] THEN call.range[2]
                            ELSE IF call.x > call.range[1] THEN call.range[1]
                            ELSE call.x)
    /\ (call.kind = "side" /\ call.out # None
            /\ call.cfg.width_range[1] > call.cfg.width_range[2]) =>
          call.out[1] =
              side_show_request(call.avail, call.state,
                                [call.cfg EXCEPT !.width_range = Swapped(@)],
                                call.drag, call.id, call.inp)

\* A panel with the range [220, 96] and a stored width of 400 is dragged with
\* the pointer at x = 10: it asks for the width 96.
C15_Witness ==
    /\ call.kind = "side" /\ call.cfg.width_range = <<220, DefaultMinWidth>>
    /\ call.avail = screen_rect
    /\ call.state = Some([rect |-> Rect(0, 0, 400, 600)])
    /\ call.drag = Some(resize_id("A"))
    /\ call.inp.latest_pos = Some(Pos2(10, 300))
    /\ call.out # None
    /\ call.out[1].is_resizing
    /\ call.out[1].panel_rect = Rect(0, 0, DefaultMinWidth, 600)

\* C16: a central panel's show leaves the available rect as its report found
\* it, so with shows made one after another the panel shown next in the frame
\* is given the rect the central panel was given.
C16_CentralLeavesAvailable ==
    /\ last.kind = "central" => last.avail_after = last.avail_end
    /\ OneAfterAnother =>
          /\ last.kind = "central" => last.avail_after = last.avail
          /\ \A k \in 1..(Len(shows) - 1) :
                shows[k].kind = "central" => shows[k + 1].avail = shows[k].avail

\* A side panel, then a central panel whose content is smaller than its
\* region: the left edge stays at the side panel's right edge.
C16_Witness ==
    /\ OneAfterAnother /\ stack = <<>>
    /\ Len(shows) = 2 /\ shows[1].kind = "side"
    /\ last.kind = "central" /\ ~last.content.fill
    /\ last.avail.min.x > 0
    /\ last.rect = last.avail
    /\ available_rect = last.avail

\* C17 as stated: a side or top panel shown right after a central panel is
\* given an available rect other than the one it would have been given in the
\* central panel's place.
C17_LaterAreaDiffers ==
    OneAfterAnother =>
        \A k \in 1..(Len(shows) - 1) :
            (shows[k].kind = "central" /\ shows[k + 1].kind \in {"side", "top"})
                => shows[k + 1].avail # shows[k].avail

\* C17 as amended: a side or top panel shown after a central panel is given
\* the available rect the central panel was given, and the rectangle it takes
\* overlaps the central panel's rectangle.
C17_LaterPanelOverlaps ==
    OneAfterAnother =>
        \A k, j \in 1..Len(shows) :
            (k < j /\ shows[k].kind = "central" /\ shows[j].kind \in {"side", "top"}) =>
                /\ j = k + 1 => shows[j].avail = shows[k].avail
                /\ Overlap(shows[k].rect, shows[j].rect)

\* A side panel, a central panel, then a top panel across the central panel.
C17_Witness ==
    /\ OneAfterAnother /\ stack = <<>>
    /\ Len(shows) = 3
    /\ shows[1].kind = "side" /\ shows[2].kind = "central" /\ shows[3].kind = "top"
    /\ shows[2].rect = Rect(200, 0, 800, 600)
    /\ shows[3].avail = shows[2].avail
    /\ shows[3].rect = Rect(200, 0, 800, 30)

\* C18: in every frame the width of the rectangle a side panel asks for, both
\* before and after the resize step, lies between the smaller and the larger
\* end of its width range.
C18_RequestedWidthInRange ==
    \A r \in BegunSides :
        /\ InRange(width(r.rect0), r.cfg.width_range)
        /\ InRange(width(r.panel_rect), r.cfg.width_range)

\* A panel dragged out to 250 in the frame before is shown with the range
\* [220, 96] while the drag goes on with the pointer at x = 250.
C18_Witness ==
    /\ frame >= 3
    /\ last.kind = "side" /\ last.cfg.width_range = <<220, DefaultMinWidth>>
    /\ last.state = Some([rect |-> Rect(0, 0, 250, 600)])
    /\ last.is_resizing /\ ~last.wrote
    /\ input.latest_pos = Some(Pos2(250, 300))
    /\ width(last.rect0) = 220
    /\ width(last.panel_rect) = 220

\* C19: the show of a side panel that is not resizable computes no hover,
\* never writes the drag_id slot and asks for the stored (or default) width
\* brought into its range, wherever the pointer is and whatever the buttons
\* do, a press on its right edge included.
C19_NotResizableIgnoresPointer ==
    /\ \A r \in BegunSides : ~r.cfg.resizable =>
          /\ ~r.hover /\ ~r.wrote /\ ~r.is_resizing
          /\ r.drag_after = r.drag_before
          /\ r.panel_rect.min = r.avail.min
          /\ width(r.panel_rect) = StartWidth(r.state, r.cfg)
    /\ (last.kind = "side" /\ ~last.cfg.resizable) => last.drag_return = last.drag_end

\* The panel took the drag while it was resizable; now it is shown as not
\* resizable, with a fresh press on its right edge and its own resize
\* identity still in the slot.
C19_Witness ==
    /\ frame >= 2 /\ stack = <<>>
    /\ last.kind = "side" /\ ~last.cfg.resizable
    /\ last.drag_before = Some(resize_id(last.id))
    /\ input.any_pressed /\ input.any_down
    /\ OverEdge(input, last.panel_rect)
    /\ last.state # None
    /\ drag_id = last.drag_before

\* C20: after the last frame in which a side panel was resized, with content
\* that fits, the panel has, in every following frame in which it is not
\* resized (shown with content that fits and a width range that holds the
\* width, as the range it was resized under does), the width it had in that
\* last frame.
C20_DragResultKept ==
    (last.kind = "side" /\ last.kept # None /\ ~last.is_resizing
        /\ InRange(last.kept[1], last.cfg.width_range)) =>
        /\ width(last.panel_rect) = last.kept[1]
        /\ last.content.fill => width(last.rect) = last.kept[1]

\* The panel was dragged from the default width 200 out to 250 and released;
\* in the frame after, with the pointer back at x = 10, it is 250 wide.
C20_Witness ==
    /\ frame >= 3 /\ stack = <<>>
    /\ last.kind = "side" /\ last.cfg = SidePanel_left /\ last.content.fill
    /\ last.kept = Some(250)
    /\ last.drag_before = None
    /\ input.latest_pos = Some(Pos2(10, 300))
    /\ ~last.is_resizing
    /\ width(last.rect) = 250

====
